---- MODULE Spec2Model ----
(***************************************************************************)
(* Model of src/src/RetailAnalytics.tsx: the RetailAnalytics component,    *)
(* its mock-data generator (historical series + 12-point forecast), the    *)
(* KPI reduction, the scenario amounts and the two pieces of UI state      *)
(* (activeTab, forecastHorizon).                                           *)
(*                                                                         *)
(* Numbers.  A JavaScript number is modelled as an exact rational          *)
(* [num, den] in lowest terms with den > 0; den = 0 encodes the IEEE       *)
(* non-finite results of a division by zero: 1/0 is Infinity, -1/0 is      *)
(* -Infinity and 0/0 is NaN.  Values produced by Math.round are plain      *)
(* integers.  Binary rounding error of the doubles is not modelled.        *)
(***************************************************************************)
EXTENDS Integers, Sequences, FiniteSets, TLC

VARIABLES
  activeTab,        \* useState<TabId>("dashboard")
  forecastHorizon,  \* useState<number>(12)
  rng,              \* hidden state of the generator behind Math.random()
  historicalData,   \* memoized MonthData[]
  forecastData,     \* memoized ForecastPoint[]
  kpis,             \* memoized KPI record
  combinedData,     \* historical rows followed by the sliced forecast rows
  content,          \* what the last render put under "Content"
  done              \* which engine functions have been applied

vars == <<activeTab, forecastHorizon, rng, historicalData, forecastData,
          kpis, combinedData, content, done>>

\* Number of distinct outcomes k/RandMod, k in 0..RandMod-1, of Math.random().
RandMod == 32

\* Longest externally supplied historical series.
MaxSeriesLen == 12

\* Largest period index at which the confidence formula is evaluated.
MaxConfidenceIdx == 50

-----------------------------------------------------------------------------
(* Arithmetic of JavaScript numbers, as exact rationals.                   *)

Abs(n) == IF n < 0 THEN -n ELSE n

Sign(n) == IF n < 0 THEN -1 ELSE IF n > 0 THEN 1 ELSE 0

RECURSIVE GCD(_, _)
\* Euclid's algorithm.  The singleton sets bind both operands as values, so
\* every step evaluates them once however the caller's arguments were given.
GCD(a, b) ==
  IF b = 0
  THEN a
  ELSE CHOOSE g \in { GCD(y, x % y) : x \in {a}, y \in {b} } : TRUE

LCM(a, b) == (a \div GCD(a, b)) * b

\* The rational n/d (d # 0) in lowest terms.
Rat(n, d) ==
  LET g == GCD(Abs(n), Abs(d))
      s == IF d < 0 THEN -1 ELSE 1
  IN  [num |-> s * (n \div g), den |-> s * (d \div g)]

FromInt(n) == [num |-> n, den |-> 1]

NaN == [num |-> 0, den |-> 0]

Infinity(sign) == [num |-> sign, den |-> 0]

IsFinite(a) == a.den # 0

IsNaN(a) == a.den = 0 /\ a.num = 0

\* a + b, for finite a and b.
RatAdd(a, b) ==
  LET l == LCM(a.den, b.den)
  IN  Rat(a.num * (l \div a.den) + b.num * (l \div b.den), l)

RatNeg(a) == [num |-> -a.num, den |-> a.den]

RatSub(a, b) == RatAdd(a, RatNeg(b))

\* a * b; Infinity * 0 and NaN * x are NaN.
RatMul(a, b) ==
  IF IsFinite(a) /\ IsFinite(b)
  THEN LET g1 == GCD(Abs(a.num), b.den)
           g2 == GCD(Abs(b.num), a.den)
       IN  [num |-> (a.num \div g1) * (b.num \div g2),
            den |-> (a.den \div g2) * (b.den \div g1)]
  ELSE IF IsNaN(a) \/ IsNaN(b) \/ a.num = 0 \/ b.num = 0
       THEN NaN
       ELSE Infinity(Sign(a.num) * Sign(b.num))

\* a / b for finite a and b; x / 0 is +-Infinity and 0 / 0 is NaN.
RatDiv(a, b) ==
  IF b.num = 0
  THEN IF a.num = 0 THEN NaN ELSE Infinity(Sign(a.num))
  ELSE RatMul(a, Rat(b.den, b.num))

\* a < b, for finite a and b.
RatLess(a, b) ==
  LET l == LCM(a.den, b.den)
  IN  a.num * (l \div a.den) < b.num * (l \div b.den)

RatLeq(a, b) == a = b \/ RatLess(a, b)

\* Math.max(a, b), for finite a and b.
RatMax(a, b) == IF RatLess(a, b) THEN b ELSE a

\* Math.round(a): the nearest integer, a tie going up.
MathRound(a) == (2 * a.num + a.den) \div (2 * a.den)

\* array.reduce((s, m) => s + m.field, initial) over an integer field: the
\* left-to-right fold of the elements from 0-based position i on.
RECURSIVE ReduceIntFrom(_, _, _, _)
ReduceIntFrom(seq, field, acc, i) ==
  IF i >= Len(seq)
  THEN acc
  ELSE ReduceIntFrom(seq, field, acc + seq[i + 1][field], i + 1)

ReduceInt(seq, field, initial) == ReduceIntFrom(seq, field, initial, 0)

\* array.reduce((s, m) => s + m.field, initial) over a number field.
RECURSIVE ReduceRatFrom(_, _, _, _)
ReduceRatFrom(seq, field, acc, i) ==
  IF i >= Len(seq)
  THEN acc
  ELSE ReduceRatFrom(seq, field, RatAdd(acc, seq[i + 1][field]), i + 1)

ReduceRat(seq, field, initial) == ReduceRatFrom(seq, field, initial, 0)

\* array.slice(0, n)
Slice(seq, n) == SubSeq(seq, 1, IF n < Len(seq) THEN n ELSE Len(seq))

\* array[i] with a JavaScript (0-based) index; undefined outside the array.
Undefined == [undefined |-> TRUE]

At(seq, i) == IF i >= 0 /\ i < Len(seq) THEN seq[i + 1] ELSE Undefined

\* JavaScript truthiness of an object-or-undefined value.
Truthy(v) == v # Undefined

-----------------------------------------------------------------------------
(* Math.random(): a generator with hidden state.  One call advances the    *)
(* state by a fixed odd step modulo RandMod (a Weyl sequence) and returns  *)
(* state / RandMod, a number in [0, 1).                                    *)

\* The state after n calls made from state s.
RngAfter(s, n) == (s + 13 * n) % RandMod

\* The value returned by the n-th call of Math.random() made from state s.
MathRandom(s, n) == Rat(RngAfter(s, n), RandMod)

Seeds == 0 .. (RandMod - 1)

-----------------------------------------------------------------------------
(* generateMockData: the historical series.                                *)

months ==
  <<"Jan", "Feb", "Mar", "Apr", "May", "Jun",
    "Jul", "Aug", "Sep", "Oct", "Nov", "Dec">>

seasonality(index) ==
  IF index < 6
  THEN RatAdd(Rat(8, 10), RatMul(FromInt(index), Rat(5, 100)))
  ELSE RatSub(Rat(12, 10), RatMul(FromInt(index - 6), Rat(3, 100)))

holidayBoost(index) == IF index \in {10, 11} THEN Rat(14, 10) ELSE FromInt(1)

\* Math.round(base + Math.random() * range)
RoundedDraw(base, range, u) ==
  MathRound(RatAdd(FromInt(base), RatMul(u, FromInt(range))))

\* Math.round((base + Math.random() * range) * seasonality * holidayBoost)
SeasonalDraw(base, range, u, index) ==
  MathRound(RatMul(RatMul(RatAdd(FromInt(base), RatMul(u, FromInt(range))),
                          seasonality(index)),
                   holidayBoost(index)))

\* center + (Math.random() * width - half)
CenteredDrawUncentered(center, width, half, u) ==
  RatAdd(center, RatMul(u, width))

CenteredDraw(center, width, half, u) ==
  RatAdd(center, RatSub(RatMul(u, width), half))

\* The record of one month; s is the generator state before its first draw.
\* The ten draws are made in the order of the object literal.
MonthData(month, index, s) ==
  [month          |-> month,
   revenue        |-> SeasonalDraw(850000, 150000, MathRandom(s, 1), index),
   units          |-> SeasonalDraw(2800, 500, MathRandom(s, 2), index),
   grossMargin    |-> CenteredDraw(Rat(68, 100), Rat(8, 100), Rat(4, 100),
                                   MathRandom(s, 3)),
   conversionRate |-> CenteredDraw(Rat(34, 1000), Rat(8, 1000), Rat(4, 1000),
                                   MathRandom(s, 4)),
   avgOrderValue  |-> RoundedDraw(280, 40, MathRandom(s, 5)),
   trafficSources |->
     [organic |-> RoundedDraw(15000, 3000, MathRandom(s, 6)),
      paid    |-> RoundedDraw(8000, 2000, MathRandom(s, 7)),
      social  |-> RoundedDraw(5000, 1500, MathRandom(s, 8)),
      email   |-> RoundedDraw(4000, 1000, MathRandom(s, 9)),
      direct  |-> RoundedDraw(12000, 2500, MathRandom(s, 10))]]

DrawsPerMonth == 10

GenerateHistorical(seed) ==
  [p \in 1 .. Len(months) |->
     MonthData(months[p], p - 1, RngAfter(seed, DrawsPerMonth * (p - 1)))]

-----------------------------------------------------------------------------
(* generateMockData: the forecast projection.                              *)

growthTrend == Rat(108, 100)

uncertainty == Rat(10, 100)

\* Confidence without the clamp at zero.
ConfidenceUnclamped(idx) ==
  RatSub(Rat(85, 100), RatMul(FromInt(idx), Rat(2, 100)))

\* Math.max(0, 0.85 - idx * 0.02)
Confidence(idx) ==
  RatMax(FromInt(0), RatSub(Rat(85, 100), RatMul(FromInt(idx), Rat(2, 100))))

\* ForecastPoint with the two band limits exchanged.
ForecastPointBandSwapped(month, idx, historical) ==
  LET baseRevenue == RatMul(FromInt(historical[idx + 1].revenue), growthTrend)
  IN  [month        |-> month \o " (F)",
       revenue      |-> MathRound(baseRevenue),
       forecastHigh |-> MathRound(RatMul(baseRevenue,
                                         RatSub(FromInt(1), uncertainty))),
       forecastLow  |-> MathRound(RatMul(baseRevenue,
                                         RatAdd(FromInt(1), uncertainty))),
       confidence   |-> Confidence(idx)]

ForecastPoint(month, idx, historical) ==
  LET baseRevenue == RatMul(FromInt(historical[idx + 1].revenue), growthTrend)
  IN  [month        |-> month \o " (F)",
       revenue      |-> MathRound(baseRevenue),
       forecastHigh |-> MathRound(RatMul(baseRevenue,
                                         RatAdd(FromInt(1), uncertainty))),
       forecastLow  |-> MathRound(RatMul(baseRevenue,
                                         RatSub(FromInt(1), uncertainty))),
       confidence   |-> Confidence(idx)]

\* Project reading the record of the following month (wrapping around).
ProjectShifted(historical) ==
  [p \in 1 .. Len(months) |->
     ForecastPoint(months[p], p - 1,
                   [q \in 1 .. Len(months) |-> historical[(q % Len(months)) + 1]])]

\* months.map((month, idx) => ...): one point per entry of months.  Reading
\* historical[idx].revenue throws a TypeError when the series is shorter.
CanProject(historical) == Len(historical) >= Len(months)

Project(historical) ==
  [p \in 1 .. Len(months) |-> ForecastPoint(months[p], p - 1, historical)]

generateMockData(seed) ==
  LET historical == GenerateHistorical(seed)
  IN  [historicalData |-> historical,
       forecastData   |-> Project(historical),
       rng            |-> RngAfter(seed, DrawsPerMonth * Len(months))]

-----------------------------------------------------------------------------
(* The KPI reduction.                                                      *)

currentMonthData(historical) == At(historical, Len(historical) - 1)

previousMonthData(historical) == At(historical, Len(historical) - 2)

\* monthlyGrowth taken relative to the current month instead of the previous.
monthlyGrowthOverCurrent(current, previous) ==
  IF Truthy(previous)
  THEN RatMul(RatDiv(FromInt(current.revenue - previous.revenue),
                     FromInt(current.revenue)),
              FromInt(100))
  ELSE FromInt(0)

monthlyGrowth(current, previous) ==
  IF Truthy(previous)
  THEN RatMul(RatDiv(FromInt(current.revenue - previous.revenue),
                     FromInt(previous.revenue)),
              FromInt(100))
  ELSE FromInt(0)

\* Kpis with the averages divided by the number of calendar months.
KpisOverTwelve(historical) ==
  [totalRevenue      |-> ReduceInt(historical, "revenue", 0),
   avgGrossMargin    |-> RatDiv(ReduceRat(historical, "grossMargin", FromInt(0)),
                                FromInt(12)),
   avgConversionRate |-> RatDiv(ReduceRat(historical, "conversionRate", FromInt(0)),
                                FromInt(12)),
   avgOrderValue     |-> RatDiv(FromInt(ReduceInt(historical, "avgOrderValue", 0)),
                                FromInt(12)),
   monthlyGrowth     |-> monthlyGrowth(currentMonthData(historical),
                                       previousMonthData(historical))]

Kpis(historical) ==
  [totalRevenue      |-> ReduceInt(historical, "revenue", 0),
   avgGrossMargin    |-> RatDiv(ReduceRat(historical, "grossMargin", FromInt(0)),
                                FromInt(Len(historical))),
   avgConversionRate |-> RatDiv(ReduceRat(historical, "conversionRate", FromInt(0)),
                                FromInt(Len(historical))),
   avgOrderValue     |-> RatDiv(FromInt(ReduceInt(historical, "avgOrderValue", 0)),
                                FromInt(Len(historical))),
   monthlyGrowth     |-> monthlyGrowth(currentMonthData(historical),
                                       previousMonthData(historical))]

-----------------------------------------------------------------------------
(* Scenario planning (renderForecast).                                     *)

\* (x).toFixed(1) of a non-negative finite number, in tenths.
ToFixed1(a) == MathRound(RatMul(a, FromInt(10)))

\* kpis.totalRevenue * multiplier
ScenarioAmount(totalRevenue, multiplier) ==
  RatMul(FromInt(totalRevenue), multiplier)

\* `$${(amount / 1_000_000).toFixed(1)}M`, as the number of tenths of a million.
ScenarioLabel(amount) == ToFixed1(RatDiv(amount, FromInt(1000000)))

\* Scenarios with the bull case compounded on the base case.
ScenariosCompounded(totalRevenue) ==
  LET bear == ScenarioAmount(totalRevenue, Rat(85, 100))
      base == ScenarioAmount(totalRevenue, Rat(108, 100))
      bull == RatMul(base, Rat(125, 100))
  IN  [bear |-> bear, base |-> base, bull |-> bull,
       bearLabel |-> ScenarioLabel(bear),
       baseLabel |-> ScenarioLabel(base),
       bullLabel |-> ScenarioLabel(bull)]

\* Scenarios with the bear case raised by 15% instead of lowered.
ScenariosBearRaised(totalRevenue) ==
  LET bear == ScenarioAmount(totalRevenue, Rat(115, 100))
      base == ScenarioAmount(totalRevenue, Rat(108, 100))
      bull == ScenarioAmount(totalRevenue, Rat(125, 100))
  IN  [bear |-> bear, base |-> base, bull |-> bull,
       bearLabel |-> ScenarioLabel(bear),
       baseLabel |-> ScenarioLabel(base),
       bullLabel |-> ScenarioLabel(bull)]

Scenarios(totalRevenue) ==
  LET bear == ScenarioAmount(totalRevenue, Rat(85, 100))
      base == ScenarioAmount(totalRevenue, Rat(108, 100))
      bull == ScenarioAmount(totalRevenue, Rat(125, 100))
  IN  [bear |-> bear, base |-> base, bull |-> bull,
       bearLabel |-> ScenarioLabel(bear),
       baseLabel |-> ScenarioLabel(base),
       bullLabel |-> ScenarioLabel(bull)]

-----------------------------------------------------------------------------
(* One render of the component.                                            *)

TabIds == {"dashboard", "forecast", "5ps"}

\* A horizon <select> with a third, 18-month option.
HorizonOptionsWithEighteen == {6, 12, 18}

\* The values of the two <option> elements of the horizon <select>.
HorizonOptions == {6, 12}

\* The characters of the decimal digits 0 .. 9.
DigitChars == <<"0", "1", "2", "3", "4", "5", "6", "7", "8", "9">>

\* value={n} of an <option>: the DOM keeps the attribute as the decimal
\* string of n (n >= 0), here the sequence of its characters.
RECURSIVE OptionValue(_)
OptionValue(n) ==
  IF n < 10
  THEN <<DigitChars[n + 1]>>
  ELSE CHOOSE str \in { OptionValue(m \div 10) \o <<DigitChars[(m % 10) + 1]>> :
                        m \in {n} } : TRUE

\* The digit a character stands for; -1 when it is not a digit.
DigitOf(c) ==
  IF \E d \in 1 .. Len(DigitChars) : DigitChars[d] = c
  THEN (CHOOSE d \in 1 .. Len(DigitChars) : DigitChars[d] = c) - 1
  ELSE -1

\* Number(str) for a string of characters: the empty string is 0, a string
\* of decimal digits is the integer it spells, anything else is NaN.
RECURSIVE NumberFrom(_, _, _)
NumberFrom(str, i, acc) ==
  IF i > Len(str)
  THEN FromInt(acc)
  ELSE IF DigitOf(str[i]) < 0
       THEN NaN
       ELSE CHOOSE r \in { NumberFrom(str, i + 1, 10 * a + DigitOf(str[i])) :
                           a \in {acc} } : TRUE

Number(str) == NumberFrom(str, 1, 0)

\* The state value setForecastHorizon receives from the chosen <option>.
SelectedHorizon(n) ==
  LET parsed == Number(OptionValue(n))
  IN  IF IsFinite(parsed) /\ parsed.den = 1 THEN parsed.num ELSE parsed

\* useMemo that runs its factory on every render.
UseMemoEveryRender(cached, depsChanged, computed) == computed

\* useMemo(factory, deps): the cached value unless a dependency changed.
UseMemo(cached, depsChanged, computed) ==
  IF depsChanged THEN computed ELSE cached

Tagged(rows, type) ==
  [i \in 1 .. Len(rows) |-> ("type" :> type) @@ rows[i]]

CombinedData(historical, forecast, horizon) ==
  Tagged(historical, "historical") \o Tagged(Slice(forecast, horizon), "forecast")

renderDashboard(k, combined) ==
  [view |-> "dashboard", kpis |-> k, chart |-> combined]

renderForecast(forecast, k) ==
  [view      |-> "forecast",
   chart     |-> Slice(forecast, 12),
   scenarios |-> Scenarios(k.totalRevenue)]

render5Ps == [view |-> "5ps"]

\* {activeTab === "dashboard" && renderDashboard()} ... : the three
\* conditionals in order, each contributing its view or nothing.
ContentForecastAlways(tab, combined, forecast, k) ==
  (IF tab = "dashboard" THEN <<renderDashboard(k, combined)>> ELSE <<>>)
  \o <<renderForecast(forecast, k)>>
  \o (IF tab = "5ps" THEN <<render5Ps>> ELSE <<>>)

Content(tab, combined, forecast, k) ==
  (IF tab = "dashboard" THEN <<renderDashboard(k, combined)>> ELSE <<>>)
  \o (IF tab = "forecast" THEN <<renderForecast(forecast, k)>> ELSE <<>>)
  \o (IF tab = "5ps" THEN <<render5Ps>> ELSE <<>>)

\* The dependency list [historicalData, currentMonthData, previousMonthData].
KpiDeps(historical) ==
  <<historical, currentMonthData(historical), previousMonthData(historical)>>

\* The body of RetailAnalytics run with the given state values; the memo
\* cells hold the values of the previous render.
Render(tab, horizon) ==
  LET data == UseMemo([historicalData |-> historicalData,
                       forecastData   |-> forecastData,
                       rng            |-> rng],
                      FALSE,
                      generateMockData(rng))
      k    == UseMemo(kpis,
                      KpiDeps(data.historicalData) # KpiDeps(historicalData),
                      Kpis(data.historicalData))
      combined == CombinedData(data.historicalData, data.forecastData, horizon)
  IN  /\ rng' = data.rng
      /\ historicalData' = data.historicalData
      /\ forecastData' = data.forecastData
      /\ kpis' = k
      /\ combinedData' = combined
      /\ content' = Content(tab, combined, data.forecastData, k)

\* The first render: nothing is cached, every factory runs.
Mount(seed) ==
  LET data == generateMockData(seed)
      k    == Kpis(data.historicalData)
      combined == CombinedData(data.historicalData, data.forecastData, 12)
  IN  /\ activeTab = "dashboard"
      /\ forecastHorizon = 12
      /\ rng = data.rng
      /\ historicalData = data.historicalData
      /\ forecastData = data.forecastData
      /\ kpis = k
      /\ combinedData = combined
      /\ content = Content("dashboard", combined, data.forecastData, k)

\* The first render runs the projection and the kpis factory.
MountApplied == {"project", "aggregate"}

Init == \E seed \in Seeds : Mount(seed) /\ done = MountApplied

\* onClick of a tab button.
SetActiveTab(tab) ==
  /\ activeTab' = tab
  /\ Render(tab, forecastHorizon)
  /\ UNCHANGED <<forecastHorizon, done>>

\* onChange of the horizon <select>, which renderDashboard puts on screen.
SetForecastHorizon(n) ==
  /\ activeTab = "dashboard"
  /\ forecastHorizon' = SelectedHorizon(n)
  /\ Render(activeTab, SelectedHorizon(n))
  /\ UNCHANGED <<activeTab, done>>

Next ==
  \/ \E tab \in TabIds : SetActiveTab(tab)
  \/ \E n \in HorizonOptions : SetForecastHorizon(n)

Spec == Init /\ [][Next]_vars

-----------------------------------------------------------------------------
(* The engine functions applied to a given historical series: the series   *)
(* is either produced by the generator or supplied from outside (a real    *)
(* data source in place of the mock generator).                            *)

Sample(revenue, grossMargin, conversionRate, avgOrderValue) ==
  [month          |-> "",
   revenue        |-> revenue,
   units          |-> 0,
   grossMargin    |-> grossMargin,
   conversionRate |-> conversionRate,
   avgOrderValue  |-> avgOrderValue,
   trafficSources |->
     [organic |-> 0, paid |-> 0, social |-> 0, email |-> 0, direct |-> 0]]

Samples ==
  << Sample(0, FromInt(0), FromInt(0), 0),
     Sample(100, Rat(64, 100), Rat(30, 1000), 280),
     Sample(110, Rat(72, 100), Rat(38, 1000), 320),
     Sample(125, Rat(68, 100), Rat(34, 1000), 299),
     Sample(1000000, FromInt(1), FromInt(1), 300) >>

\* Record p of a supplied series: the samples taken cyclically from position
\* start in steps of stride, labelled with the calendar month of p.
SuppliedRecord(p, start, stride) ==
  [Samples[((start + (p - 1) * stride) % Len(Samples)) + 1]
     EXCEPT !.month = months[((p - 1) % Len(months)) + 1]]

SuppliedSeries(len, start, stride) ==
  IF len = 0
  THEN <<>>
  ELSE [p \in 1 .. len |-> SuppliedRecord(p, start, stride)]

SuppliedInputs ==
  { SuppliedSeries(len, start, stride) :
      len \in 0 .. MaxSeriesLen,
      start \in 0 .. (Len(Samples) - 1),
      stride \in 0 .. (Len(Samples) - 1) }

GeneratedInputs == { GenerateHistorical(seed) : seed \in Seeds }

EngineInit ==
  /\ historicalData \in SuppliedInputs \cup GeneratedInputs
  /\ forecastData = <<>>
  /\ kpis = Undefined
  /\ combinedData = <<>>
  /\ content = <<>>
  /\ activeTab = "dashboard"
  /\ forecastHorizon = 12
  /\ rng = 0
  /\ done = {}

\* The forecast half of generateMockData on the given series.
EngineProject ==
  /\ "project" \notin done
  /\ CanProject(historicalData)
  /\ forecastData' = Project(historicalData)
  /\ done' = done \cup {"project"}
  /\ UNCHANGED <<activeTab, forecastHorizon, rng, historicalData, kpis,
                 combinedData, content>>

\* historicalData[idx].revenue of a missing record: a TypeError, no result.
EngineProjectThrows ==
  /\ "project" \notin done
  /\ "TypeError" \notin done
  /\ ~CanProject(historicalData)
  /\ done' = done \cup {"TypeError"}
  /\ UNCHANGED <<activeTab, forecastHorizon, rng, historicalData, forecastData,
                 kpis, combinedData, content>>

\* The kpis factory on the given series.
EngineAggregate ==
  /\ "aggregate" \notin done
  /\ kpis' = Kpis(historicalData)
  /\ done' = done \cup {"aggregate"}
  /\ UNCHANGED <<activeTab, forecastHorizon, rng, historicalData, forecastData,
                 combinedData, content>>

\* The scenario panel of renderForecast on the aggregated total.
EngineScenarios ==
  /\ "aggregate" \in done
  /\ "scenarios" \notin done
  /\ content' = <<[view |-> "scenarios",
                   scenarios |-> Scenarios(kpis.totalRevenue)]>>
  /\ done' = done \cup {"scenarios"}
  /\ UNCHANGED <<activeTab, forecastHorizon, rng, historicalData, forecastData,
                 kpis, combinedData>>

EngineNext ==
  \/ EngineProject
  \/ EngineProjectThrows
  \/ EngineAggregate
  \/ EngineScenarios

EngineSpec == EngineInit /\ [][EngineNext]_vars

-----------------------------------------------------------------------------
(* Properties.                                                             *)

Projected == "project" \in done

Aggregated == "aggregate" \in done

\* (n / d) rounded to the nearest integer, a tie going up; d even, n >= 0.
RoundDiv(n, d) == (n + (d \div 2)) \div d

IntMax(a, b) == IF a < b THEN b ELSE a

\* The sum of an integer field over a series, taken from the last record back.
RECURSIVE FieldSum(_, _)
FieldSum(seq, field) ==
  IF Len(seq) = 0
  THEN 0
  ELSE seq[Len(seq)][field] + FieldSum(SubSeq(seq, 1, Len(seq) - 1), field)

\* The sum of a number field over a series, taken from the last record back.
RECURSIVE FieldSumRat(_, _)
FieldSumRat(seq, field) ==
  IF Len(seq) = 0
  THEN FromInt(0)
  ELSE RatAdd(seq[Len(seq)][field],
              FieldSumRat(SubSeq(seq, 1, Len(seq) - 1), field))

\* C1: every forecast point computed from a series of non-negative integer
\* revenues has forecastLow <= revenue <= forecastHigh, a revenue of 0
\* included.
C1_ForecastWithinBand ==
  Projected =>
    \A i \in 1 .. Len(forecastData) :
      /\ forecastData[i].forecastLow <= forecastData[i].revenue
      /\ forecastData[i].revenue <= forecastData[i].forecastHigh

\* A projected series that holds a zero revenue and a point strictly inside
\* its band.
C1_Witness ==
  /\ Projected
  /\ \E i \in 1 .. Len(forecastData) :
       historicalData[i].revenue = 0 /\ forecastData[i].revenue = 0
  /\ \E i \in 1 .. Len(forecastData) :
       /\ forecastData[i].forecastLow < forecastData[i].revenue
       /\ forecastData[i].revenue < forecastData[i].forecastHigh

\* C2: the confidence of forecast point i (0-based) is max(0, 0.85 - 0.02 i):
\* 0.85 at i = 0, 0.63 at i = 11, non-increasing in i and never negative,
\* also at indices beyond 11, where the value is clamped at 0.
C2_ConfidenceDecaysClamped ==
  /\ \A i \in 1 .. Len(forecastData) :
       forecastData[i].confidence = Rat(IntMax(0, 85 - 2 * (i - 1)), 100)
  /\ Len(forecastData) = 12 =>
       /\ forecastData[1].confidence = Rat(85, 100)
       /\ forecastData[12].confidence = Rat(63, 100)
  /\ \A i \in 2 .. Len(forecastData) :
       RatLeq(forecastData[i].confidence, forecastData[i - 1].confidence)
  /\ \A idx \in 0 .. MaxConfidenceIdx :
       /\ Confidence(idx) = Rat(IntMax(0, 85 - 2 * idx), 100)
       /\ RatLeq(FromInt(0), Confidence(idx))
       /\ idx > 0 => RatLeq(Confidence(idx), Confidence(idx - 1))

\* The twelve points are rendered with confidences from 0.85 down to 0.63,
\* and an index past 42 evaluates to the clamp.
C2_Witness ==
  /\ Len(forecastData) = 12
  /\ forecastData[1].confidence = Rat(85, 100)
  /\ forecastData[12].confidence = Rat(63, 100)
  /\ Confidence(MaxConfidenceIdx) = FromInt(0)

\* C3: the projection has exactly 12 points; point i is computed from record
\* i of the series: revenue = round(r * 1.08), forecastHigh =
\* round(r * 1.08 * 1.10), forecastLow = round(r * 1.08 * 0.90), and its label
\* is the record's month followed by " (F)".  A revenue of 1,000,000 at
\* index 11 gives 1,080,000 / 1,188,000 / 972,000 with confidence 0.63.
C3_ProjectionAligned ==
  Projected =>
    /\ Len(forecastData) = 12
    /\ \A i \in 1 .. 12 :
         LET r == historicalData[i].revenue
         IN  /\ forecastData[i].revenue = RoundDiv(r * 108, 100)
             /\ forecastData[i].forecastHigh = RoundDiv(r * 1188, 1000)
             /\ forecastData[i].forecastLow = RoundDiv(r * 972, 1000)
             /\ forecastData[i].month = historicalData[i].month \o " (F)"
    /\ historicalData[12].revenue = 1000000 =>
         forecastData[12] = [month        |-> "Dec (F)",
                             revenue      |-> 1080000,
                             forecastHigh |-> 1188000,
                             forecastLow  |-> 972000,
                             confidence   |-> Rat(63, 100)]

\* A projected series whose December revenue is 1,000,000 and whose other
\* months differ from it.
C3_Witness ==
  /\ Projected
  /\ historicalData[12].revenue = 1000000
  /\ historicalData[11].revenue # 1000000
  /\ forecastData[12].forecastHigh = 1188000

\* C4: on a non-empty series totalRevenue is the sum of the revenues, and
\* each of avgGrossMargin, avgConversionRate and avgOrderValue is the sum of
\* its field divided by the number of records.
C4_KpiSumsAndMeans ==
  (Aggregated /\ Len(historicalData) >= 1) =>
    LET n == FromInt(Len(historicalData))
    IN  /\ kpis.totalRevenue = FieldSum(historicalData, "revenue")
        /\ IsFinite(kpis.avgGrossMargin)
        /\ RatMul(kpis.avgGrossMargin, n)
             = FieldSumRat(historicalData, "grossMargin")
        /\ IsFinite(kpis.avgConversionRate)
        /\ RatMul(kpis.avgConversionRate, n)
             = FieldSumRat(historicalData, "conversionRate")
        /\ IsFinite(kpis.avgOrderValue)
        /\ RatMul(kpis.avgOrderValue, n)
             = FromInt(FieldSum(historicalData, "avgOrderValue"))

\* An aggregated series of three unequal records.
C4_Witness ==
  /\ Aggregated
  /\ Len(historicalData) = 3
  /\ historicalData[1].revenue # historicalData[2].revenue
  /\ kpis.totalRevenue > 0
  /\ kpis.avgGrossMargin # historicalData[1].grossMargin

\* C5: with at least two records monthlyGrowth is (last - previous) /
\* previous * 100 over the last two records: that rational when previous is
\* not 0, and the IEEE value of the same expression (Infinity, or NaN for
\* 0 / 0) when it is; with fewer than two records it is 0; for revenues
\* [100, 110] it is 10.
C5_MonthlyGrowth ==
  Aggregated =>
    LET n == Len(historicalData)
    IN  /\ n < 2 => kpis.monthlyGrowth = FromInt(0)
        /\ n >= 2 =>
             LET last == historicalData[n].revenue
                 prev == historicalData[n - 1].revenue
             IN  /\ prev # 0 =>
                      /\ IsFinite(kpis.monthlyGrowth)
                      /\ RatMul(kpis.monthlyGrowth, FromInt(prev))
                           = FromInt((last - prev) * 100)
                 /\ (prev = 0 /\ last > 0) => kpis.monthlyGrowth = Infinity(1)
                 /\ (prev = 0 /\ last = 0) => kpis.monthlyGrowth = NaN
        /\ (n = 2 /\ historicalData[1].revenue = 100
                  /\ historicalData[2].revenue = 110) =>
             kpis.monthlyGrowth = FromInt(10)

\* The series [100, 110] aggregated to a growth of 10.
C5_Witness ==
  /\ Aggregated
  /\ Len(historicalData) = 2
  /\ historicalData[1].revenue = 100
  /\ historicalData[2].revenue = 110
  /\ kpis.monthlyGrowth = FromInt(10)

\* C6: monthlyGrowth is a finite number for every series of non-negative
\* revenues, of any length, a second-to-last revenue of 0 included.
C6_GrowthAlwaysFinite ==
  Aggregated => IsFinite(kpis.monthlyGrowth)

\* C7: on the empty series the aggregator returns totalRevenue = 0, the
\* three averages = 0 and monthlyGrowth = 0.
C7_EmptySeriesAllZero ==
  (Aggregated /\ Len(historicalData) = 0) =>
    kpis = [totalRevenue      |-> 0,
            avgGrossMargin    |-> FromInt(0),
            avgConversionRate |-> FromInt(0),
            avgOrderValue     |-> FromInt(0),
            monthlyGrowth     |-> FromInt(0)]

ScenariosShown == "scenarios" \in done /\ content # <<>>

\* C8: the scenario amounts are totalRevenue * 0.85, * 1.08 and * 1.25, a
\* function of totalRevenue alone; a total of 10,000,000 gives 8,500,000,
\* 10,800,000 and 12,500,000.
C8_ScenarioAmounts ==
  ScenariosShown =>
    LET sc == content[1].scenarios
        total == kpis.totalRevenue
    IN  /\ RatMul(sc.bear, FromInt(100)) = FromInt(total * 85)
        /\ RatMul(sc.base, FromInt(100)) = FromInt(total * 108)
        /\ RatMul(sc.bull, FromInt(100)) = FromInt(total * 125)
        /\ total = 10000000 =>
             /\ sc.bear = FromInt(8500000)
             /\ sc.base = FromInt(10800000)
             /\ sc.bull = FromInt(12500000)

\* The scenarios of a total revenue of exactly 10,000,000.
C8_Witness ==
  /\ ScenariosShown
  /\ kpis.totalRevenue = 10000000
  /\ content[1].scenarios.base = FromInt(10800000)

\* C9: whenever totalRevenue > 0 the amounts are ordered bear < base < bull,
\* and every series the generator produces has totalRevenue > 0.
C9_ScenariosOrdered ==
  ScenariosShown =>
    LET sc == content[1].scenarios
    IN  /\ kpis.totalRevenue > 0 =>
             RatLess(sc.bear, sc.base) /\ RatLess(sc.base, sc.bull)
        /\ historicalData \in GeneratedInputs => kpis.totalRevenue > 0

\* The scenarios of a generated series, strictly ordered.
C9_Witness ==
  /\ ScenariosShown
  /\ historicalData \in GeneratedInputs
  /\ kpis.totalRevenue > 0
  /\ RatLess(content[1].scenarios.bear, content[1].scenarios.bull)

\* C10: after the first render no horizon change and no view switch alters
\* the historical series, the 12-point projection or the KPI record, and no
\* further random number is drawn; the chart rows are the same series
\* followed by the first forecastHorizon points of the same projection.
C10_RerenderKeepsData ==
  [][ /\ historicalData' = historicalData
      /\ forecastData' = forecastData
      /\ kpis' = kpis
      /\ rng' = rng
      /\ Len(forecastData') = 12
      /\ Len(combinedData') = Len(historicalData) + forecastHorizon'
      /\ \A i \in 1 .. Len(historicalData) :
           /\ combinedData'[i].type = "historical"
           /\ combinedData'[i].revenue = historicalData[i].revenue
      /\ \A j \in 1 .. forecastHorizon' :
           /\ combinedData'[Len(historicalData) + j].type = "forecast"
           /\ combinedData'[Len(historicalData) + j].month = forecastData[j].month
           /\ combinedData'[Len(historicalData) + j].revenue
                = forecastData[j].revenue
    ]_vars

\* The forecast view rendered after the horizon was changed to 6.
C10_Witness ==
  /\ activeTab = "forecast"
  /\ forecastHorizon = 6
  /\ Len(combinedData) = Len(historicalData) + 6
  /\ content[1].view = "forecast"

\* A chart row without the "type" tag that combinedData adds.
Untagged(row) == [f \in (DOMAIN row) \ {"type"} |-> row[f]]

\* The forecast points a rendered view hands to its chart, in order.
DisplayedForecast(view) ==
  IF view.view = "dashboard"
  THEN LET h == Len(historicalData)
       IN  [j \in 1 .. (Len(view.chart) - h) |-> Untagged(view.chart[h + j])]
  ELSE view.chart

\* C11: in every view that displays forecast points (dashboard, forecast) the
\* points displayed are exactly the first forecastHorizon points of the
\* projection, in order, and the projection itself always has 12 points.
C11_DisplayedForecastIsHorizonPrefix ==
  /\ Len(forecastData) = 12
  /\ \A v \in 1 .. Len(content) :
       content[v].view \in {"dashboard", "forecast"} =>
         /\ Len(DisplayedForecast(content[v])) = forecastHorizon
         /\ \A j \in 1 .. Len(DisplayedForecast(content[v])) :
              DisplayedForecast(content[v])[j] = forecastData[j]

\* The calendar months in order, as the series is documented to list them.
CalendarMonths ==
  <<"Jan", "Feb", "Mar", "Apr", "May", "Jun",
    "Jul", "Aug", "Sep", "Oct", "Nov", "Dec">>

\* lo <= x < hi
InHalfOpen(x, lo, hi) == RatLeq(lo, x) /\ RatLess(x, hi)

Views == {"dashboard", "forecast", "5ps"}

\* One tab click can take the component from its current view to view t.
OneClickTo(t) ==
  ENABLED (SetActiveTab(t) /\ activeTab' = t /\ Len(content') = 1
           /\ content'[1].view = t)

\* C13: the active-view selector starts in "dashboard"; in every reachable
\* state it holds one of dashboard, forecast, 5ps and exactly one view, the
\* selected one, is rendered; from every view each of the three views is
\* reachable by one tab click, so no state is terminal; a view switch leaves
\* the forecast horizon unchanged.
C13_ViewStateMachine ==
  /\ activeTab = "dashboard"
  /\ [](/\ activeTab \in Views
        /\ Len(content) = 1
        /\ content[1].view = activeTab
        /\ \A t \in Views : OneClickTo(t)
        /\ \E t \in Views \ {activeTab} : OneClickTo(t))
  /\ [][activeTab' # activeTab => forecastHorizon' = forecastHorizon]_vars

\* The 5P view reached by a tab click after 6 months had been selected.
C13_Witness ==
  /\ activeTab = "5ps"
  /\ forecastHorizon = 6
  /\ Len(content) = 1
  /\ content[1].view = "5ps"

\* C14: in every state reachable through the user interface the forecast
\* horizon is 6 or 12: it starts at 12 and every horizon selection sets it to
\* a value in {6, 12}, so the number of forecast points requested, and the
\* number the dashboard chart receives, never exceeds the 12 points the
\* projector computed.
C14_HorizonSixOrTwelve ==
  /\ forecastHorizon = 12
  /\ [](/\ forecastHorizon \in {6, 12}
        /\ Len(forecastData) = 12
        /\ forecastHorizon <= Len(forecastData)
        /\ Len(combinedData) - Len(historicalData) = forecastHorizon)
  /\ [][(\E n \in HorizonOptions : SetForecastHorizon(n))
          => forecastHorizon' \in {6, 12}]_vars

\* The dashboard after the 6-month option was chosen: six forecast rows
\* follow the twelve historical ones.
C14_Witness ==
  /\ activeTab = "dashboard"
  /\ forecastHorizon = 6
  /\ Len(combinedData) = 18
  /\ combinedData[18].type = "forecast"

====
